---- MODULE Spec2Model ----
(***************************************************************************)
(* nbdime webapp diff models (src/nbdime/webapp/src/diffmodel.ts).         *)
(*                                                                         *)
(* A string is a sequence of characters; offsets and line numbers are      *)
(* 0-based as in the source.  The absent value null of a string field is   *)
(* the marker Null, which is no string.                                    *)
(*                                                                         *)
(* pc is the caller's position: "start" (nothing called yet),              *)
(* "constructed" (an OutputDiffModel exists, in odm), "built" (a            *)
(* StringDiffModel exists, in base/remote/additions/deletions/mimetype,    *)
(* and getChunks is sweeping it), "done" (getChunks returned `chunks`),    *)
(* "threw" (the call raised).                                              *)
(***************************************************************************)
EXTENDS Integers, Sequences, FiniteSets, TLC

VARIABLES pc, args, odm, base, remote, additions, deletions, mimetype,
          chunks, current, editOffset, ia, id, isAddition, range

vars == <<pc, args, odm, base, remote, additions, deletions, mimetype,
          chunks, current, editOffset, ia, id, isAddition, range>>

\* ------------------------------------------------------------------ bounds
\* Longest text handed to a factory.
MaxLen == 3
\* Most entries of one diff.
MaxOps == 3
\* Longest text, and most raw ranges per side, handed to the constructor.
MaxCtorLen == 2
MaxRaw == 2

\* ------------------------------------------------------------ characters
NL == "\n"
Char == {"x", NL}
Null == <<"NULL">>
\* What a string variable holds when it was assigned JavaScript's undefined.
Undefined == <<"UNDEFINED">>

Max(a, b) == IF a >= b THEN a ELSE b

StringsUpTo(n) == UNION {[1..k -> Char] : k \in 0..n}

\* ------------------------------------------------------- Range Translator
\* DiffRangeRaw: half-open character offsets [from, to).
DiffRangeRaw(from, to) == [from |-> from, to |-> to]

\* CodeMirror.Pos(line, ch)
Pos(line, ch) == [line |-> line, ch |-> ch]

\* Number of line terminators among the first `off` characters of text:
\* the line holding offset `off`.
RECURSIVE findLineNumber(_, _)
findLineNumber(text, off) ==
  IF off <= 0 THEN 0
  ELSE findLineNumber(text, off - 1) + (IF text[off] = NL THEN 1 ELSE 0)

\* Offset of the first character of the line holding offset `off`.
RECURSIVE lineStartIdx(_, _)
lineStartIdx(text, off) ==
  IF off <= 0 THEN 0
  ELSE IF text[off] = NL THEN off
  ELSE lineStartIdx(text, off - 1)

\* One raw range translated to line/column coordinates.  `to` is
\* non-inclusive: it is located on the line of the range's last character,
\* which is what getChunks' "linediff += 1 when endsOnNewline" counts on.
raw2PosOne(r, text) ==
  LET last == Max(r.to - 1, 0)
      fromPos == Pos(findLineNumber(text, r.from),
                     r.from - lineStartIdx(text, r.from))
      toPos == Pos(findLineNumber(text, last),
                   r.to - lineStartIdx(text, last))
  IN [from |-> fromPos,
      to |-> toPos,
      chunkStartLine |-> (fromPos.ch = 0),
      endsOnNewline |-> (r.to >= 1 /\ r.to <= Len(text) /\ text[r.to] = NL)]

raw2Pos(raws, text) == [i \in 1..Len(raws) |-> raw2PosOne(raws[i], text)]

\* --------------------------------------------------------------- Chunk
Chunk(editFrom, editTo, origFrom, origTo) ==
  [editFrom |-> editFrom, editTo |-> editTo,
   origFrom |-> origFrom, origTo |-> origTo]

inEdit(c, line) == line >= c.editFrom /\ line <= c.editTo

\* Defect variant of inOrig: the span reaches one line too far.
inOrigOneTooFar(c, line) == line >= c.origFrom /\ line <= c.origTo + 1

inOrig(c, line) == line >= c.origFrom /\ line <= c.origTo

\* ------------------------------------------------ StringDiffModel
\* The constructor: the fields of the new model.
StringDiffModel(b, r, adds, dels) ==
  [base |-> b,
   remote |-> r,
   deletions |-> IF b = Null THEN <<>> ELSE raw2Pos(dels, b),
   additions |-> IF r = Null THEN <<>> ELSE raw2Pos(adds, r)]

unchanged == base = remote

added == base = Null

deleted == remote = Null

\* Defect variant of takeAddition: at equal columns the deletion goes first.
takeAdditionStrictColumn(ra, rd, eo) ==
  \/ ra.from.line < rd.from.line - eo
  \/ (ra.from.line = rd.from.line - eo /\ ra.from.ch < rd.from.ch)

\* getChunks: "Figure out which element to take next", both streams non-empty.
takeAddition(ra, rd, eo) ==
  \/ ra.from.line < rd.from.line - eo
  \/ (ra.from.line = rd.from.line - eo /\ ra.from.ch <= rd.from.ch)

linediffOf(r) ==
  (r.to.line - r.from.line) + (IF r.endsOnNewline THEN 1 ELSE 0)

firstLineNewOf(r) == r.from.ch = 0 /\ linediffOf(r) > 0

startOffsetOf(r) == IF r.chunkStartLine THEN 0 ELSE 1

endOffsetOf(r) ==
  IF r.chunkStartLine /\ r.endsOnNewline /\ firstLineNewOf(r)
  THEN 0 ELSE 1

\* "if (current) { ... }": the open chunk extended, or closed (<<>>).
\* current is <<>> (null) or <<chunk>>.
extendCurrent(cur, isAdd, r) ==
  IF cur = <<>> THEN <<>>
  ELSE IF isAdd
       THEN IF inOrig(cur[1], r.from.line)
            THEN <<[cur[1] EXCEPT !.origTo = Max(@, r.to.line + 1)]>>
            ELSE <<>>
       ELSE IF inEdit(cur[1], r.from.line)
            THEN <<[cur[1] EXCEPT !.editTo = Max(@, r.to.line + 1)]>>
            ELSE <<>>

\* Defect variant of newChunk: an addition's lines are put on the edit span
\* and a deletion's on the original span.
newChunkSidesSwapped(isAdd, r, eo) ==
  LET linediff == linediffOf(r)
      startOffset == startOffsetOf(r)
      endOffset == endOffsetOf(r)
  IN IF isAdd
     THEN LET startOrig == r.from.line
              startEdit == startOrig + eo
          IN Chunk(startEdit + startOffset,
                   startEdit + endOffset + linediff,
                   startOrig + startOffset,
                   startOrig + endOffset)
     ELSE LET startEdit == r.from.line
              startOrig == startEdit - eo
          IN Chunk(startEdit + startOffset,
                   startEdit + endOffset,
                   startOrig + startOffset,
                   startOrig + endOffset + linediff)

\* "if (!current) { ... }": the chunk opened for a range.
newChunk(isAdd, r, eo) ==
  LET linediff == linediffOf(r)
      startOffset == startOffsetOf(r)
      endOffset == endOffsetOf(r)
  IN IF isAdd
     THEN LET startOrig == r.from.line
              startEdit == startOrig + eo
          IN Chunk(startEdit + startOffset,
                   startEdit + endOffset,
                   startOrig + startOffset,
                   startOrig + endOffset + linediff)
     ELSE LET startEdit == r.from.line
              startOrig == startEdit - eo
          IN Chunk(startEdit + startOffset,
                   startEdit + endOffset + linediff,
                   startOrig + startOffset,
                   startOrig + endOffset)

\* ------------------------------------------------------------ JSON values
\* A value handed to the factories is tagged with its JavaScript type.
JNull == [t |-> "null"]

JUndefined == [t |-> "undefined"]

JStr(s) == [t |-> "string", s |-> s]

JObj(m) == [t |-> "object", m |-> m]

\* Member names in canonical (sorted) order.
KeyOrder == <<"a", "application/json", "data", "output_type", "text", "text/plain">>

\* A string's characters as they stand inside a serialized string literal.
RECURSIVE escape(_)
escape(s) ==
  IF s = <<>> THEN <<>>
  ELSE (IF Head(s) = NL THEN <<"\\", "n">> ELSE <<Head(s)>>) \o escape(Tail(s))

\* stringify(value) -> string: the canonical serialization of a value that
\* is not a string: members in sorted order, one per line.  A missing member
\* (undefined) has no serialization: the result is undefined.
RECURSIVE stringify(_)
RECURSIVE stringifyMembers(_, _, _)
stringifyMembers(m, i, first) ==
  IF i > Len(KeyOrder) THEN <<>>
  ELSE IF KeyOrder[i] \in DOMAIN m
       THEN (IF first THEN <<>> ELSE <<",">>)
            \o <<NL, KeyOrder[i], ":">> \o stringify(m[KeyOrder[i]])
            \o stringifyMembers(m, i + 1, FALSE)
       ELSE stringifyMembers(m, i + 1, first)

stringify(v) ==
  CASE v.t = "null" -> <<"n", "u", "l", "l">>
    [] v.t = "undefined" -> Undefined
    [] v.t = "string" -> <<"\"">> \o escape(v.s) \o <<"\"">>
    [] v.t = "object" -> <<"{">> \o stringifyMembers(v.m, 1, TRUE) \o <<NL, "}">>

\* "(typeof base == 'string') ? base : stringify(base)"
asString(v) == IF v.t = "string" THEN v.s ELSE stringify(v)

\* ---------------------------------------------------------------- patch
\* Diff entries over a string: add-range and remove-range, keyed by offset.
AddRange(key, valuelist) == [op |-> "addrange", key |-> key, valuelist |-> valuelist]

RemoveRange(key, length) == [op |-> "removerange", key |-> key, length |-> length]

\* patchStringified over a string: one pass over the entries in order,
\* copying the text between them; `take` is the base offset consumed so far.
RECURSIVE patchString(_, _, _, _, _, _, _)
patchString(b, diff, i, take, rem, adds, dels) ==
  IF i > Len(diff)
  THEN [remote |-> rem \o SubSeq(b, take + 1, Len(b)),
        additions |-> adds, deletions |-> dels]
  ELSE LET e == diff[i]
           r1 == rem \o SubSeq(b, take + 1, e.key)
       IN IF e.op = "addrange"
          THEN patchString(b, diff, i + 1, e.key, r1 \o e.valuelist,
                 Append(adds, DiffRangeRaw(Len(r1), Len(r1) + Len(e.valuelist))),
                 dels)
          ELSE patchString(b, diff, i + 1, e.key + e.length, r1, adds,
                 Append(dels, DiffRangeRaw(e.key, e.key + e.length)))

patchStringified(b, diff) == patchString(b, diff, 1, 0, <<>>, <<>>, <<>>)

\* ------------------------------------------------------------ factories
NoModel == [base |-> Null, remote |-> Null, additions |-> <<>>, deletions |-> <<>>]

Returned(m) == [error |-> "none", model |-> m]

Threw(msg) == [error |-> msg, model |-> NoModel]

createPatchDiffModel(b, diff) ==
  LET base_str == asString(b)
      out == patchStringified(base_str, diff)
  IN Returned(StringDiffModel(base_str, out.remote, out.additions, out.deletions))

\* Defect variant of createDirectDiffModel: "!base" and "!remote" in place
\* of "=== null", so that an empty string counts as absent.
createDirectDiffModelFalsy(b, r) ==
  LET base_str == asString(b)
      remote_str == asString(r)
      absent(v) == v.t \in {"null", "undefined"} \/ v = JStr(<<>>)
  IN IF absent(b)
     THEN IF remote_str = Undefined THEN Threw("TypeError")
          ELSE Returned(StringDiffModel(Null, remote_str,
                          <<DiffRangeRaw(0, Len(remote_str))>>, <<>>))
     ELSE IF absent(r)
     THEN IF base_str = Undefined THEN Threw("TypeError")
          ELSE Returned(StringDiffModel(base_str, Null,
                          <<>>, <<DiffRangeRaw(0, Len(base_str))>>))
     ELSE IF remote_str # base_str
     THEN Threw("Invalid arguments to createDirectDiffModel().")
     ELSE Returned(StringDiffModel(base_str, remote_str, <<>>, <<>>))

\* A member that does not exist reaches the factory as undefined, which has
\* no serialization and no length: reading its length raises, and a model
\* over two undefined texts is taken to raise in the Range Translator.
createDirectDiffModel(b, r) ==
  LET base_str == asString(b)
      remote_str == asString(r)
  IN IF b = JNull
     THEN \* Added cell
          IF remote_str = Undefined THEN Threw("TypeError")
          ELSE Returned(StringDiffModel(Null, remote_str,
                          <<DiffRangeRaw(0, Len(remote_str))>>, <<>>))
     ELSE IF r = JNull
     THEN \* Deleted cell
          IF base_str = Undefined THEN Threw("TypeError")
          ELSE Returned(StringDiffModel(base_str, Null,
                          <<>>, <<DiffRangeRaw(0, Len(base_str))>>))
     ELSE IF remote_str # base_str
     THEN Threw("Invalid arguments to createDirectDiffModel().")
     ELSE IF base_str = Undefined THEN Threw("TypeError")
          ELSE Returned(StringDiffModel(base_str, remote_str, <<>>, <<>>))

\* ------------------------------------------------------ OutputDiffModel
\* Diff entries over an object, keyed by member name; a diff argument is
\* JNull (absent) or a list of entries.
Patch(key, diff) == [op |-> "patch", key |-> key, diff |-> diff]

Add(key, value) == [op |-> "add", key |-> key, value |-> value]

Remove(key) == [op |-> "remove", key |-> key]

JDiff(d) == [t |-> "diff", d |-> d]

\* JavaScript's "!v"
falsy(v) == v.t \in {"null", "undefined"} \/ v = JStr(<<>>)

\* obj[key]
member(obj, key) ==
  IF obj.t = "object" /\ key \in DOMAIN obj.m THEN obj.m[key] ELSE JUndefined

\* getDiffKey(diff, key): the sub-diff of the patch entry at `key`; nothing
\* (null here) when no entry has the key or the entry is no patch.
getDiffKey(diff, key) ==
  LET hits == {i \in 1..Len(diff.d) : diff.d[i].key = key}
  IN IF hits = {} THEN JNull
     ELSE LET e == diff.d[CHOOSE i \in hits : \A j \in hits : i <= j]
          IN IF e.op = "patch" THEN JDiff(e.diff) ELSE JNull

\* patch(base, diff) over a value: the entries applied member by member.
RECURSIVE patch(_, _)
patch(v, diff) ==
  IF v.t = "string" THEN JStr(patchStringified(v.s, diff).remote)
  ELSE LET entryAt(k) == diff[CHOOSE i \in 1..Len(diff) : diff[i].key = k]
           touched == {diff[i].key : i \in 1..Len(diff)}
           removed == {k \in touched : entryAt(k).op = "remove"}
           keys == (DOMAIN v.m \cup touched) \ removed
       IN JObj([k \in keys |->
            IF k \notin touched THEN v.m[k]
            ELSE IF entryAt(k).op = "patch" THEN patch(v.m[k], entryAt(k).diff)
            ELSE entryAt(k).value])

\* The constructor: the fields of the new model.
OutputDiffModel(b, r, diff) ==
  [base |-> b,
   remote |-> IF falsy(r) /\ ~falsy(diff) THEN patch(b, diff.d) ELSE r,
   diff |-> IF ~falsy(diff) THEN diff ELSE JNull]

outputUnchanged(o) == o.diff = JNull

outputAdded(o) == o.base = JNull

outputDeleted(o) == o.remote = JNull

\* A key is the list of its dot-separated parts: 'data.text/plain' is
\* <<"data", "text/plain">>, and no key (or '') is <<>>.
\* output_type of the base if there is one, else of the remote; reading it
\* off null raises.
outputType(o) ==
  LET from == IF ~falsy(o.base) THEN o.base ELSE o.remote
  IN IF from.t = "object" /\ "output_type" \in DOMAIN from.m
     THEN from.m["output_type"].s
     ELSE Undefined

\* innerMimeType(key): [error, value]; the mimetype is a key's tail.
innerMimeType(o, key) ==
  LET t == outputType(o)
  IN IF falsy(o.base) /\ falsy(o.remote)
     THEN [error |-> "TypeError", value |-> <<>>]
     ELSE IF t = <<"stream">> /\ key = <<"text">>
     THEN [error |-> "none", value |-> <<"text/plain">>]
     ELSE IF t \in {<<"execute_result">>, <<"display_data">>}
             /\ Len(key) >= 2 /\ key[1] = "data"
     THEN [error |-> "none", value |-> Tail(key)]
     ELSE [error |-> "Unknown MIME type for key", value |-> <<>>]

\* stringify's getMemberByPath, without and with the lookup function f.
RECURSIVE getMemberByPath(_, _)
getMemberByPath(obj, key) ==
  IF falsy(obj) THEN obj
  ELSE IF Len(key) > 1
       THEN getMemberByPath(member(obj, key[1]), Tail(key))
       ELSE member(obj, key[1])

RECURSIVE getDiffByPath(_, _)
getDiffByPath(diff, key) ==
  IF falsy(diff) THEN diff
  ELSE IF Len(key) > 1
       THEN getDiffByPath(getDiffKey(diff, key[1]), Tail(key))
       ELSE getDiffKey(diff, key[1])

\* The values stringify(key) hands to a factory.
baseAt(o, key) == IF key # <<>> THEN getMemberByPath(o.base, key) ELSE o.base

remoteAt(o, key) == IF key # <<>> THEN getMemberByPath(o.remote, key) ELSE o.remote

diffAt(o, key) ==
  IF o.diff # JNull /\ key # <<>> THEN getDiffByPath(o.diff, key) ELSE o.diff

takesDirect(o, key) ==
  outputUnchanged(o) \/ outputAdded(o) \/ outputDeleted(o) \/ falsy(diffAt(o, key))

\* OutputDiffModel.stringify(key): [error, model, mimetype]
stringifyOutput(o, key) ==
  LET made == IF takesDirect(o, key)
              THEN createDirectDiffModel(baseAt(o, key), remoteAt(o, key))
              ELSE createPatchDiffModel(baseAt(o, key), diffAt(o, key).d)
      mt == IF key # <<>> THEN innerMimeType(o, key)
            ELSE [error |-> "none", value |-> <<"application/json">>]
  IN IF made.error # "none"
     THEN [error |-> made.error, model |-> NoModel, mimetype |-> <<>>]
     ELSE IF mt.error # "none"
     THEN [error |-> mt.error, model |-> NoModel, mimetype |-> <<>>]
     ELSE [error |-> "none", model |-> made.model, mimetype |-> mt.value]

\* ------------------------------------------------------------- inputs
Strings == StringsUpTo(MaxLen)

StringOrNull == StringsUpTo(MaxCtorLen) \cup {Null}

RawRanges(text) ==
  {r \in {DiffRangeRaw(f, t) : f \in 0..Len(text), t \in 0..Len(text)} : r.from < r.to}

\* Raw range lists sorted on `from` and non-overlapping.
SortedRaw(text) ==
  IF text = Null THEN {<<>>}
  ELSE {s \in UNION {[1..k -> RawRanges(text)] : k \in 0..MaxRaw} :
          \A i \in 1..Len(s) - 1 : s[i].to <= s[i + 1].from}

\* new StringDiffModel(b, r, a, d) with sorted, non-overlapping ranges.
CtorArgs(a) ==
  \E b \in StringOrNull, r \in StringOrNull :
    \E adds \in SortedRaw(r), dels \in SortedRaw(b) :
      a = [how |-> "ctor", base |-> b, remote |-> r,
           additions |-> adds, deletions |-> dels]

SmallObjects == {JObj("a" :> JStr(s)) : s \in StringsUpTo(1)}

Values == {JNull} \cup {JStr(s) : s \in Strings} \cup SmallObjects

\* createDirectDiffModel(b, r)
DirectArgs(a) ==
  \E b \in Values, r \in Values :
    a = [how |-> "direct", base |-> b, remote |-> r]

\* The texts an add-range entry inserts: part of a line, a line end, a line.
InsertedTexts == {<<"x">>, <<NL>>, <<"x", NL>>}

DiffEntries(b) ==
  {AddRange(k, v) : k \in 0..Len(b), v \in InsertedTexts}
  \cup {e \in {RemoveRange(k, n) : k \in 0..Len(b), n \in 1..Len(b)} :
          e.key + e.length <= Len(b)}

entryEnd(e) == IF e.op = "addrange" THEN e.key ELSE e.key + e.length

\* Entry e may follow diff d: in order of key, not inside d's last removal,
\* and at most one add-range per offset.
follows(d, e) ==
  d = <<>> \/ LET l == d[Len(d)]
              IN /\ entryEnd(l) <= e.key
                 /\ ~(l.op = "addrange" /\ e.op = "addrange" /\ l.key = e.key)

\* The diffs of at most n entries over text b.
RECURSIVE DiffsUpTo(_, _)
DiffsUpTo(b, n) ==
  IF n = 0 THEN {<<>>}
  ELSE LET prev == DiffsUpTo(b, n - 1)
       IN prev \cup UNION {
            {Append(d, e) : e \in {x \in DiffEntries(b) : follows(d, x)}} :
            d \in {p \in prev : Len(p) = n - 1}}

Diffs(b) == DiffsUpTo(b, MaxOps)

\* createPatchDiffModel(b, d)
PatchArgs(a) ==
  \E b \in Strings :
    \E d \in Diffs(b) :
      a = [how |-> "patch", base |-> JStr(b), diff |-> d]

\* Outputs: stream text, mime bundles of one or two payloads, an error.
OutTexts == {<<"x">>, <<"x", NL>>}

JsonPayload == JObj("a" :> JStr(<<"x">>))

Stream(text) ==
  JObj(("output_type" :> JStr(<<"stream">>)) @@ ("text" :> JStr(text)))

Result(type, bundle) ==
  JObj(("output_type" :> JStr(<<type>>)) @@ ("data" :> JObj(bundle)))

ErrorOutput == JObj("output_type" :> JStr(<<"error">>))

Bundles ==
  {("text/plain" :> JStr(s)) : s \in OutTexts}
  \cup {("application/json" :> JsonPayload),
        ("text/plain" :> JStr(<<"x">>)) @@ ("application/json" :> JsonPayload)}

Outputs ==
  {Stream(s) : s \in OutTexts}
  \cup {Result(type, b) : type \in {"execute_result", "display_data"}, b \in Bundles}
  \cup {ErrorOutput}

\* One-entry diffs of a text.
TextDiffs(text) == DiffsUpTo(text, 1) \ {<<>>}

\* Diffs of output b: none at all, its text patched, a payload patched,
\* removed or added.
OutputDiffs(b) ==
  {<<>>}
  \cup (IF "text" \in DOMAIN b.m
        THEN {<<Patch("text", d)>> : d \in TextDiffs(b.m["text"].s)}
        ELSE {})
  \cup (IF "data" \in DOMAIN b.m
        THEN IF "text/plain" \in DOMAIN b.m["data"].m
             THEN {<<Patch("data", <<Patch("text/plain", d)>>)>> :
                     d \in TextDiffs(b.m["data"].m["text/plain"].s)}
                  \cup {<<Patch("data", <<Remove("text/plain")>>)>>}
             ELSE {<<Patch("data", <<Add("text/plain", JStr(<<"x">>))>>)>>}
        ELSE {})

Keys ==
  {<<>>, <<"text">>, <<"output_type">>, <<"data">>,
   <<"data", "text/plain">>, <<"data", "application/json">>,
   <<"data", "image/png">>, <<"data", "application/json", "a">>}

\* stringify(key) would hand createPatchDiffModel a structured base with a
\* member-keyed diff; patchStringified over structured values is not modelled.
patchesObject(b, r, diff, key) ==
  LET o == OutputDiffModel(b, r, diff)
  IN ~takesDirect(o, key) /\ baseAt(o, key).t # "string"

\* new OutputDiffModel(b, r, diff).stringify(key): base, remote and diff
\* each supplied or absent; a supplied diff is one of base.
OutputArgs(a) ==
  \E key \in Keys :
    \/ \E b \in Outputs \cup {JNull}, r \in Outputs \cup {JNull} :
         a = [how |-> "output", base |-> b, remote |-> r, diff |-> JNull,
              key |-> key]
    \/ \E b \in Outputs :
         \E d \in OutputDiffs(b) :
           \E r \in {JNull, patch(b, d)} :
             /\ ~patchesObject(b, r, JDiff(d), key)
             /\ a = [how |-> "output", base |-> b, remote |-> r,
                     diff |-> JDiff(d), key |-> key]

Inputs(a) == CtorArgs(a) \/ DirectArgs(a) \/ PatchArgs(a) \/ OutputArgs(a)

NoOutput == [base |-> JNull, remote |-> JNull, diff |-> JNull]

Init ==
  /\ pc = "start"
  /\ Inputs(args)
  /\ odm = NoOutput
  /\ base = Null
  /\ remote = Null
  /\ additions = <<>>
  /\ deletions = <<>>
  /\ mimetype = <<>>
  /\ chunks = <<>>
  /\ current = <<>>
  /\ editOffset = 0
  /\ ia = 0
  /\ id = 0
  /\ isAddition = <<>>
  /\ range = <<>>

sweepVars == <<chunks, current, editOffset, ia, id, isAddition, range>>

\* A factory or constructor call returned model m.
built(m) ==
  /\ pc' = "built"
  /\ base' = m.base
  /\ remote' = m.remote
  /\ additions' = m.additions
  /\ deletions' = m.deletions
  /\ UNCHANGED <<args, odm, sweepVars>>

threw ==
  /\ pc' = "threw"
  /\ UNCHANGED <<args, odm, base, remote, additions, deletions, mimetype,
                 sweepVars>>

\* new StringDiffModel(base, remote, additions, deletions)
Construct ==
  /\ pc = "start"
  /\ args.how = "ctor"
  /\ built(StringDiffModel(args.base, args.remote, args.additions, args.deletions))
  /\ UNCHANGED mimetype

CreateDirectReturns ==
  /\ pc = "start"
  /\ args.how = "direct"
  /\ createDirectDiffModel(args.base, args.remote).error = "none"
  /\ built(createDirectDiffModel(args.base, args.remote).model)
  /\ UNCHANGED mimetype

CreateDirectThrows ==
  /\ pc = "start"
  /\ args.how = "direct"
  /\ createDirectDiffModel(args.base, args.remote).error # "none"
  /\ threw

CreatePatch ==
  /\ pc = "start"
  /\ args.how = "patch"
  /\ built(createPatchDiffModel(args.base, args.diff).model)
  /\ UNCHANGED mimetype

\* new OutputDiffModel(base, remote, diff)
NewOutputDiffModel ==
  /\ pc = "start"
  /\ args.how = "output"
  /\ odm' = OutputDiffModel(args.base, args.remote, args.diff)
  /\ pc' = "constructed"
  /\ UNCHANGED <<args, base, remote, additions, deletions, mimetype, sweepVars>>

\* odm.stringify(key)
StringifyReturns ==
  /\ pc = "constructed"
  /\ stringifyOutput(odm, args.key).error = "none"
  /\ built(stringifyOutput(odm, args.key).model)
  /\ mimetype' = stringifyOutput(odm, args.key).mimetype

StringifyThrows ==
  /\ pc = "constructed"
  /\ stringifyOutput(odm, args.key).error # "none"
  /\ threw

\* One iteration of getChunks' loop that takes `range`.
\* isAddition and range are <<>> (null) or hold the value last assigned.
consume(isAdd, r) ==
  LET kept == extendCurrent(current, isAdd, r)
      closed == current # <<>> /\ kept = <<>>
  IN /\ isAddition' = <<isAdd>>
     /\ range' = <<r>>
     /\ chunks' = IF closed THEN Append(chunks, current[1]) ELSE chunks
     /\ current' = IF kept = <<>>
                   THEN <<newChunk(isAdd, r, editOffset)>>
                   ELSE kept
     /\ editOffset' = editOffset +
          (IF isAdd THEN -linediffOf(r) ELSE linediffOf(r))

modelVars == <<args, odm, base, remote, additions, deletions, mimetype>>

GetChunksAddition ==
  /\ pc = "built"
  /\ ia < Len(additions)
  /\ id < Len(deletions) =>
       takeAddition(additions[ia + 1], deletions[id + 1], editOffset)
  /\ consume(TRUE, additions[ia + 1])
  /\ ia' = ia + 1
  /\ UNCHANGED <<pc, id, modelVars>>

GetChunksDeletion ==
  /\ pc = "built"
  /\ id < Len(deletions)
  /\ ia < Len(additions) =>
       ~takeAddition(additions[ia + 1], deletions[id + 1], editOffset)
  /\ consume(FALSE, deletions[id + 1])
  /\ id' = id + 1
  /\ UNCHANGED <<pc, ia, modelVars>>

GetChunksReturn ==
  /\ pc = "built"
  /\ ia >= Len(additions)
  /\ id >= Len(deletions)
  /\ chunks' = IF current # <<>> THEN Append(chunks, current[1]) ELSE chunks
  /\ pc' = "done"
  /\ UNCHANGED <<current, editOffset, ia, id, isAddition, range, modelVars>>

Next ==
  \/ Construct
  \/ CreateDirectReturns
  \/ CreateDirectThrows
  \/ CreatePatch
  \/ NewOutputDiffModel
  \/ StringifyReturns
  \/ StringifyThrows
  \/ GetChunksAddition
  \/ GetChunksDeletion
  \/ GetChunksReturn

Spec == Init /\ [][Next]_vars

\* ------------------------------------------------------------ properties
\* getChunks has returned, and `chunks` is its result.
Returned_getChunks == pc = "done"

\* Position p is at or before position q.
posLeq(p, q) == p.line < q.line \/ (p.line = q.line /\ p.ch <= q.ch)

\* A range list is sorted on `from` and its ranges do not overlap.
sortedRanges(rs) ==
  \A i \in 1..Len(rs) - 1 :
     posLeq(rs[i].from, rs[i + 1].from) /\ posLeq(rs[i].to, rs[i + 1].from)

\* The last line of a text (the number of its line terminators).
lastLine(text) == findLineNumber(text, Len(text))

\* The chunks of the list whose original span / edit span holds lines lo..hi.
chunksWithOrig(lo, hi) ==
  {i \in 1..Len(chunks) : inOrig(chunks[i], lo) /\ inOrig(chunks[i], hi)}

chunksWithEdit(lo, hi) ==
  {i \in 1..Len(chunks) : inEdit(chunks[i], lo) /\ inEdit(chunks[i], hi)}

\* C1: the chunks getChunks returns for sorted, non-overlapping additions
\* and deletions are ordered and pairwise disjoint on both sides: of two
\* consecutive chunks c, d: c.editTo < d.editFrom and c.origTo < d.origFrom.
C1_ChunksOrderedDisjoint ==
  (Returned_getChunks /\ sortedRanges(additions) /\ sortedRanges(deletions)) =>
    \A i \in 1..Len(chunks) - 1 :
       /\ chunks[i].editTo < chunks[i + 1].editFrom
       /\ chunks[i].origTo < chunks[i + 1].origFrom

\* Text inserted and removed at the same place in the middle of a line:
\* getChunks returns the same chunk twice.
C1_Witness ==
  /\ Returned_getChunks
  /\ args.how = "patch"
  /\ args.base = JStr(<<"x", "x">>)
  /\ args.diff = <<AddRange(1, <<"x">>), RemoveRange(1, 1)>>
  /\ sortedRanges(additions) /\ sortedRanges(deletions)
  /\ chunks = <<Chunk(1, 1, 1, 1), Chunk(1, 1, 1, 1)>>

\* C2: every input range lies inside the corresponding span of exactly one
\* returned chunk.  The corresponding span is read both ways: the span the
\* code relates to the range's text (additions: orig, deletions: edit) and
\* the one the data model names (additions: edit, deletions: orig); the
\* claim holds if either reading does.
C2_EveryRangeInOneChunk ==
  (Returned_getChunks /\ sortedRanges(additions) /\ sortedRanges(deletions)) =>
    \/ /\ \A i \in 1..Len(additions) :
            Cardinality(chunksWithOrig(additions[i].from.line,
                                       additions[i].to.line)) = 1
       /\ \A i \in 1..Len(deletions) :
            Cardinality(chunksWithEdit(deletions[i].from.line,
                                       deletions[i].to.line)) = 1
    \/ /\ \A i \in 1..Len(additions) :
            Cardinality(chunksWithEdit(additions[i].from.line,
                                       additions[i].to.line)) = 1
       /\ \A i \in 1..Len(deletions) :
            Cardinality(chunksWithOrig(deletions[i].from.line,
                                       deletions[i].to.line)) = 1

\* A deletion in the middle of line 0: the only chunk starts at line 1.
C2_Witness ==
  /\ Returned_getChunks
  /\ args.how = "ctor"
  /\ base = <<"x", "x">>
  /\ remote = <<"x">>
  /\ additions = <<>>
  /\ Len(deletions) = 1
  /\ deletions[1].from = Pos(0, 1)
  /\ ~deletions[1].chunkStartLine
  /\ chunks = <<Chunk(1, 1, 1, 1)>>

\* C3: a model that reports unchanged has no chunks.
C3_UnchangedNoChunks ==
  (Returned_getChunks /\ unchanged) => chunks = <<>>

\* A patch that removes the base text and adds it again: the model is
\* unchanged, and has a chunk.
C3_Witness ==
  /\ Returned_getChunks
  /\ args.how = "patch"
  /\ args.base = JStr(<<"x">>)
  /\ args.diff = <<AddRange(0, <<"x">>), RemoveRange(0, 1)>>
  /\ unchanged
  /\ chunks # <<>>

\* A pure addition: base absent, remote a non-empty string, one addition
\* range over all of remote.
pureAddition ==
  \/ /\ args.how = "direct"
     /\ args.base = JNull
     /\ args.remote.t = "string"
     /\ args.remote.s # <<>>
  \/ /\ args.how = "ctor"
     /\ args.base = Null
     /\ args.remote \notin {Null, <<>>}
     /\ args.additions = <<DiffRangeRaw(0, Len(args.remote))>>

adjacentAddThenDelete ==
  /\ args.how = "patch"
  /\ Len(args.diff) = 2
  /\ args.diff[1].op = "addrange"
  /\ args.diff[2].op = "removerange"
  /\ findLineNumber(args.base.s, args.diff[1].key)
       = findLineNumber(args.base.s, args.diff[2].key)

\* C5: an addition that ends at original line k and a deletion that starts
\* at original line k end up in one single chunk.
C5_AdjacentEditsMerge ==
  (Returned_getChunks /\ adjacentAddThenDelete) => Len(chunks) = 1

\* An addition and a deletion at the same place of line 0, not at its
\* start: two chunks.
C5_Witness ==
  /\ Returned_getChunks
  /\ adjacentAddThenDelete
  /\ args.base = JStr(<<"x", "x">>)
  /\ additions[1].to.line = 0
  /\ deletions[1].from.line = 0
  /\ Len(chunks) = 2

\* Base line [s, e) (terminator included) is left whole, in base and in
\* remote, between the two entries e1 and e2 of a patch.
unchangedLineBetween(b, e1, e2) ==
  \E s \in 0..Len(b), e \in 1..Len(b) :
     /\ s < e
     /\ b[e] = NL
     /\ \A i \in (s + 1)..(e - 1) : b[i] # NL
     /\ s = 0 \/ b[s] = NL
     /\ entryEnd(e1) <= s
     /\ e <= e2.key
     /\ entryEnd(e1) = s =>
          IF e1.op = "addrange"
          THEN e1.valuelist[Len(e1.valuelist)] = NL
          ELSE e1.key = 0 \/ b[e1.key] = NL

\* One addition block and one deletion block, in either order, with a
\* fully unchanged line between them.
separatedEdits ==
  /\ args.how = "patch"
  /\ Len(args.diff) = 2
  /\ args.diff[1].op # args.diff[2].op
  /\ unchangedLineBetween(args.base.s, args.diff[1], args.diff[2])

\* C6: separated edits yield exactly two distinct chunks, one per block, the
\* first block's before the second's.
C6_SeparatedEditsTwoChunks ==
  (Returned_getChunks /\ separatedEdits) =>
    /\ Len(chunks) = 2
    /\ chunks[1] # chunks[2]
    /\ chunks[1].editFrom < chunks[2].editFrom
    /\ chunks[1].origFrom < chunks[2].origFrom

C6_Witness ==
  /\ Returned_getChunks
  /\ separatedEdits
  /\ args.diff[1].op = "removerange"
  /\ Len(chunks) = 2

\* createDirectDiffModel(X, X) was called and is over.
directRoundTrip ==
  /\ pc # "start"
  /\ args.how = "direct"
  /\ args.base = args.remote

roundTripResult ==
  /\ pc # "threw"
  /\ additions = <<>>
  /\ deletions = <<>>
  /\ unchanged

\* C7 as stated: for every X, null included, createDirectDiffModel(X, X)
\* returns a model with no additions, no deletions and unchanged true.
C7_RoundTripAsStated == directRoundTrip => roundTripResult

\* C7 (amended): for every X other than null, createDirectDiffModel(X, X)
\* returns a model with no additions, no deletions and unchanged true.
C7_RoundTripNonNull ==
  (directRoundTrip /\ args.base # JNull) => roundTripResult

C7_Witness ==
  /\ directRoundTrip
  /\ args.base.t = "object"
  /\ pc = "built"
  /\ unchanged

\* Both streams have a next range.
bothRemain == ia < Len(additions) /\ id < Len(deletions)

\* The next deletion's normalized start is strictly before the next
\* addition's start.
deletionStrictlyEarlier ==
  LET ra == additions[ia + 1]
      rd == deletions[id + 1]
  IN \/ rd.from.line - editOffset < ra.from.line
     \/ (rd.from.line - editOffset = ra.from.line /\ rd.from.ch < ra.from.ch)

\* C9: each step of the sweep consumes exactly one range, the next of its
\* stream; with both streams non-empty it is the deletion only if the
\* deletion's normalized start is strictly earlier, else the addition (so
\* at equal normalized starts the addition goes first).
C9_SweepOrder ==
  [][(pc = "built" /\ pc' = "built") =>
       /\ \/ ia' = ia + 1 /\ id' = id /\ range' = <<additions[ia + 1]>>
             /\ isAddition' = <<TRUE>>
          \/ id' = id + 1 /\ ia' = ia /\ range' = <<deletions[id + 1]>>
             /\ isAddition' = <<FALSE>>
       /\ bothRemain => (isAddition' = <<FALSE>> <=> deletionStrictlyEarlier)]_vars

\* A tie was met and the addition went first.
C9_Witness ==
  /\ pc = "built"
  /\ ia = 1
  /\ id = 0
  /\ deletions # <<>>
  /\ additions[1].from = deletions[1].from
  /\ isAddition = <<TRUE>>

\* The key names a payload of the output: 'text' of a stream, or 'data.<m>'
\* for a mimetype m of the data bundle (base's or remote's) of an
\* execute_result or display_data.
bundleOf(v) ==
  IF v.t = "object" /\ "data" \in DOMAIN v.m THEN DOMAIN v.m["data"].m ELSE {}

knownKey(o, key) ==
  \/ outputType(o) = <<"stream">> /\ key = <<"text">>
  \/ /\ outputType(o) \in {<<"execute_result">>, <<"display_data">>}
     /\ Len(key) = 2
     /\ key[1] = "data"
     /\ key[2] \in bundleOf(o.base) \cup bundleOf(o.remote)

\* stringify(key) was called with a key, and is over.
stringifyCalledWithKey ==
  /\ args.how = "output"
  /\ pc \notin {"start", "constructed"}
  /\ args.key # <<>>

\* C8: stringify(key) with an unknown key raises, and returns no model.
C8_UnknownKeyFails ==
  (stringifyCalledWithKey /\ ~knownKey(odm, args.key)) => pc = "threw"

\* stringify('data.application/json.a') of an unchanged execute_result whose
\* bundle holds application/json returns a model of mimetype
\* 'application/json.a'.
C8_Witness ==
  /\ stringifyCalledWithKey
  /\ odm.base = Result("execute_result", ("application/json" :> JsonPayload))
  /\ odm.remote = odm.base
  /\ odm.diff = JNull
  /\ args.key = <<"data", "application/json", "a">>
  /\ ~knownKey(odm, args.key)
  /\ pc = "built"
  /\ mimetype = <<"application/json", "a">>

\* C10: an OutputDiffModel reports at most one of unchanged, added, deleted.
C10_ClassificationExclusive ==
  (args.how = "output" /\ pc # "start") =>
    Cardinality({f \in {"unchanged", "added", "deleted"} :
                   \/ f = "unchanged" /\ outputUnchanged(odm)
                   \/ f = "added" /\ outputAdded(odm)
                   \/ f = "deleted" /\ outputDeleted(odm)}) <= 1

\* new OutputDiffModel(null, remote): added, and unchanged as well.
C10_Witness ==
  /\ pc = "constructed"
  /\ odm.base = JNull
  /\ odm.remote = Stream(<<"x">>)
  /\ odm.diff = JNull
  /\ outputAdded(odm)
  /\ outputUnchanged(odm)
  /\ ~outputDeleted(odm)
====
